---- MODULE Spec2Model ----
(***************************************************************************)
(* Deferred media hosts of assets/media.js: the custom elements            *)
(* <deferred-media> (class DeferredMedia) and <product-model> (class       *)
(* ProductModel).  One host is modelled: its fields, the part of its DOM   *)
(* subtree the code reads and writes, the timers, observers and promises   *)
(* its handlers leave pending, and the platform around it.                 *)
(*                                                                         *)
(* Time is abstracted to the order of the timers' deadlines: of the timers *)
(* armed by one connectedCallback the one with the shortest delay fires    *)
(* first, and of two timers with the same delay the one armed first.       *)
(***************************************************************************)
EXTENDS Naturals, Sequences, FiniteSets

\* ------------------------------------------------------------- bounds
\* connectedCallback runs at most MaxAttach times in a behaviour.
MaxAttach == 2
\* loadContent (directly or through showDeferredMedia) broadcasts at most
\* MaxLoadCalls times and requests the viewer feature at most MaxLoadCalls times.
MaxLoadCalls == 2

\* ------------------------------------------------------------- program constants
maxAttempts == 10
\* setupModelViewerUI: a click closer than this to the pointer-down is a tap.
tapThreshold == 10

\* ------------------------------------------------------------- state
VARIABLES
  cfg,    \* the host's markup: element class, attributes, template content
  env,    \* the platform: user agent, viewport, battery-saver indicators
  host,   \* the host's fields, the mutable part of its subtree, and what
          \* its handlers have left pending (timers, observers, probes)
  shopify,\* the global Shopify object: the viewer factory, pending feature loads
  page,   \* the rest of the document: the autoplay probes' test videos in
          \* document.body, and another battery-saver host of the same page
  op      \* the operation (handler, callback, platform event) that ran last

vars == <<cfg, env, host, shopify, page, op>>

NoAttr == "<absent>"

\* No pointer event of that kind yet.
NoEvent == <<>>

\* clientX, clientY of the pointer events on the model-viewer element.
Coords == {0, 6, 8}
Points == Coords \X Coords

\* A node of the template's first element (the first one is that element,
\* the others its descendants, in document order).
TemplateNode(tag, vtype, autoplay) ==
  [tag |-> tag, vtype |-> vtype, autoplay |-> autoplay]

VideoNode(autoplay) == TemplateNode("VIDEO", NoAttr, autoplay)
IframeNode(vtype) == TemplateNode("IFRAME", vtype, NoAttr)
DivNode == TemplateNode("DIV", NoAttr, NoAttr)
ModelViewerNode == TemplateNode("MODEL-VIEWER", NoAttr, NoAttr)

\* Template contents: no template / no first element, a video with
\* autoplay="autoplay", a video with the bare attribute autoplay="", an
\* iframe of each provider kind, a wrapper holding a video and an iframe,
\* a model-viewer element.
DeferredTemplates ==
  { <<>>,
    <<VideoNode("autoplay")>>,
    <<VideoNode("")>>,
    <<IframeNode("youtube")>>,
    <<IframeNode("vimeo")>>,
    <<DivNode, VideoNode("autoplay"), IframeNode("youtube")>> }

ModelTemplates == { <<>>, <<ModelViewerNode>> }

\* The host's attributes autoplay (present or not) and
\* data-battery-saver-fallback (absent, "true", another value).
HostAttrs == [autoplay : BOOLEAN, batterySaverFallback : {NoAttr, "true", "false"}]

Config(cls, template, attrs) ==
  [cls |-> cls, template |-> template,
   autoplay |-> attrs.autoplay, batterySaverFallback |-> attrs.batterySaverFallback]

\* Templates of the hosts drawn with the battery-saver checks on.
BatterySaverTemplates ==
  { <<>>,
    <<VideoNode("autoplay")>>,
    <<IframeNode("youtube")>>,
    <<DivNode, VideoNode("autoplay"), IframeNode("youtube")>> }

\* <deferred-media> hosts.
DeferredConfigs ==
  { c \in { Config("deferred-media", t, a) : t \in DeferredTemplates, a \in HostAttrs } :
      (c.autoplay /\ c.batterySaverFallback = "true") => c.template \in BatterySaverTemplates }

\* <product-model> hosts: the theme renders them around a model-viewer
\* template, without autoplay or battery-saver attributes.
ModelConfigs ==
  { Config("product-model", t, [autoplay |-> FALSE, batterySaverFallback |-> NoAttr]) :
      t \in ModelTemplates }

\* Platforms: an iPhone, an Android phone, a desktop browser, a desktop
\* browser in a window of at most 768px; the phone and the desktop browser
\* with or without a battery-saver indicator (save-data, slow connection,
\* low device memory).
Envs ==
  { [device |-> "iPhone", saveData |-> FALSE],
    [device |-> "Android", saveData |-> FALSE],
    [device |-> "Android", saveData |-> TRUE],
    [device |-> "Desktop", saveData |-> FALSE],
    [device |-> "Desktop", saveData |-> TRUE],
    [device |-> "DesktopNarrow", saveData |-> FALSE] }

\* The platform of a host whose battery-saver checks are off, which never
\* consults the classifiers.
PlainEnv == [device |-> "Desktop", saveData |-> FALSE]

\* The timers armed (directly or by another timer) by connectedCallback,
\* and the time from connectedCallback to their deadline in ms.
TimerKinds == {"iosDetect", "iosAutoplayCheck", "iosDetectLate", "backup"}

Deadline(kind) ==
  CASE kind = "iosDetect" -> 100
    [] kind = "iosAutoplayCheck" -> 1000
    [] kind = "iosDetectLate" -> 100 + 1000
    [] kind = "backup" -> 2000

\* ------------------------------------------------------------- pure helpers

\* isIOSDevice: /iPhone|iPad|iPod/i on the user agent.
isIOSDevice == env.device = "iPhone"

\* isMobileDevice: the user-agent pattern, or a viewport of at most 768px.
isMobileDevice == env.device \in {"iPhone", "Android"} \/ env.device = "DesktopNarrow"

\* isBatterySaverLikely: a data-saver / slow-connection / low-memory indicator.
isBatterySaverLikely == env.saveData

\* ... without the test of data-battery-saver-fallback.
BatterySaverEnabledNoFlag == cfg.autoplay

\* The guard of both battery-saver blocks of connectedCallback.
BatterySaverEnabled == cfg.autoplay /\ cfg.batterySaverFallback = "true"

\* Indices of the materialized nodes with one of the given tags
\* (querySelectorAll does not descend into <template> content).
Select(h, tags) == { i \in 1..Len(h.nodes) : h.nodes[i].tag \in tags }

Min(S) == CHOOSE x \in S : \A y \in S : x <= y

\* querySelector('iframe[data-video-type]')
ProviderIframes(h) == { i \in Select(h, {"IFRAME"}) : h.nodes[i].vtype # NoAttr }

Videos(h) == Select(h, {"VIDEO"})
Iframes(h) == Select(h, {"IFRAME"})

\* ------------------------------------------------------------- methods
\* Each method is a function from the host (and the inputs the platform
\* decides) to the host after the call.

\* updatePlayPauseHint(isPlaying): unhide the toggle control, show one icon.
updatePlayPauseHint(h, playing) ==
  [h EXCEPT !.hint = IF playing THEN "pauseIcon" ELSE "playIcon"]

\* iframe.contentWindow of node i: a frame has a window only while it is in
\* a document, that is while the host is attached.
ContentWindow(h, i) == h.connected

\* What the operation that is starting has sent out so far: no message
\* posted to a provider frame, no promise rejected without a handler.
Begin(h) == [h EXCEPT !.posted = <<>>, !.unhandled = FALSE]

\* video.play() on node i: the platform starts playback (started), or the
\* promise it returns rejects; no caller attaches a handler to it.
PlayVideo(h, i, started) ==
  IF started THEN [h EXCEPT !.nodes[i].paused = FALSE]
  ELSE [h EXCEPT !.unhandled = TRUE]

PauseVideo(h, i) == [h EXCEPT !.nodes[i].paused = TRUE]

\* DeferredMedia.playMedia()
DeferredMedia_playMedia(h, started) ==
  LET h1 == IF ProviderIframes(h) # {}
            THEN IF ~ContentWindow(h, Min(ProviderIframes(h))) THEN h
                 ELSE [h EXCEPT !.posted = Append(@,
                              IF h.nodes[Min(ProviderIframes(h))].vtype = "youtube"
                              THEN "{\"event\":\"command\",\"func\":\"playVideo\",\"args\":\"\"}"
                              ELSE "{\"method\":\"play\"}")]
            ELSE IF Videos(h) # {} THEN PlayVideo(h, Min(Videos(h)), started) ELSE h
      h2 == [h1 EXCEPT !.isPlaying = TRUE]
  IN  updatePlayPauseHint(h2, TRUE)

\* ... with the native video paused whether or not a provider frame exists.
DeferredMedia_pauseMediaBoth(h) ==
  LET h0 == IF Videos(h) # {} THEN PauseVideo(h, Min(Videos(h))) ELSE h
      h1 == IF ProviderIframes(h0) # {}
            THEN IF ~ContentWindow(h0, Min(ProviderIframes(h0))) THEN h0
                 ELSE [h0 EXCEPT !.posted = Append(@,
                              IF h0.nodes[Min(ProviderIframes(h0))].vtype = "youtube"
                              THEN "{\"event\":\"command\",\"func\":\"pauseVideo\",\"args\":\"\"}"
                              ELSE "{\"method\":\"pause\"}")]
            ELSE h0
      h2 == [h1 EXCEPT !.isPlaying = FALSE]
  IN  IF h2.loaded THEN updatePlayPauseHint(h2, FALSE) ELSE h2

\* DeferredMedia.pauseMedia()
DeferredMedia_pauseMedia(h) ==
  LET h1 == IF ProviderIframes(h) # {}
            THEN IF ~ContentWindow(h, Min(ProviderIframes(h))) THEN h
                 ELSE [h EXCEPT !.posted = Append(@,
                              IF h.nodes[Min(ProviderIframes(h))].vtype = "youtube"
                              THEN "{\"event\":\"command\",\"func\":\"" \o "pauseVideo" \o "\",\"args\":\"\"}"
                              ELSE "{\"method\":\"pause\"}")]
            ELSE IF Videos(h) # {} THEN PauseVideo(h, Min(Videos(h))) ELSE h
      h2 == [h1 EXCEPT !.isPlaying = FALSE]
  IN  IF h2.loaded THEN updatePlayPauseHint(h2, FALSE) ELSE h2

\* ProductModel.playMedia(): the inherited call, then modelViewerUI?.play().
ProductModel_playMedia(h, started) ==
  LET h1 == DeferredMedia_playMedia(h, started)
  IN  IF h1.viewers > 0 THEN [h1 EXCEPT !.viewerPlaying = TRUE] ELSE h1

\* ProductModel.pauseMedia(): the inherited call, then modelViewerUI?.pause().
ProductModel_pauseMedia(h) ==
  LET h1 == DeferredMedia_pauseMedia(h)
  IN  IF h1.viewers > 0 THEN [h1 EXCEPT !.viewerPlaying = FALSE] ELSE h1

\* this.playMedia() / this.pauseMedia(): dispatched on the host's class.
playMedia(h, started) ==
  IF cfg.cls = "product-model" THEN ProductModel_playMedia(h, started)
  ELSE DeferredMedia_playMedia(h, started)

pauseMedia(h) ==
  IF cfg.cls = "product-model" THEN ProductModel_pauseMedia(h)
  ELSE DeferredMedia_pauseMedia(h)

\* ... without the test of isPlaying.
toggleMediaAlwaysPlays(h, started) == playMedia(h, started)

\* toggleMedia()
toggleMedia(h, started) ==
  IF h.isPlaying THEN pauseMedia(h) ELSE playMedia(h, started)

\* showBatterySaverFallback(): the marker class on the host, every video
\* and iframe of the host hidden inline (the inline style of the fallback
\* image, which nothing reads, is left out).
\* ... with classList.toggle in place of classList.add.
showBatterySaverFallbackToggle(h) ==
  [h EXCEPT !.batterySaverActive = ~h.batterySaverActive,
            !.nodes = [i \in 1..Len(h.nodes) |->
                         IF h.nodes[i].tag \in {"VIDEO", "IFRAME"}
                         THEN [h.nodes[i] EXCEPT !.hidden = TRUE] ELSE h.nodes[i]]]

\* ... with the selector 'video' in place of 'video, iframe'.
showBatterySaverFallbackVideosOnly(h) ==
  [h EXCEPT !.batterySaverActive = TRUE,
            !.nodes = [i \in 1..Len(h.nodes) |->
                         IF h.nodes[i].tag \in {"VIDEO"}
                         THEN [h.nodes[i] EXCEPT !.hidden = TRUE] ELSE h.nodes[i]]]

showBatterySaverFallback(h) ==
  [h EXCEPT !.batterySaverActive = TRUE,
            !.nodes = [i \in 1..Len(h.nodes) |->
                         IF h.nodes[i].tag \in {"VIDEO", "IFRAME"}
                         THEN [h.nodes[i] EXCEPT !.hidden = TRUE] ELSE h.nodes[i]]]

\* ... without the loop that clears the inline styles.
hideBatterySaverFallbackMarkerOnly(h) == [h EXCEPT !.batterySaverActive = FALSE]

\* hideBatterySaverFallback()
hideBatterySaverFallback(h) ==
  [h EXCEPT !.batterySaverActive = FALSE,
            !.nodes = [i \in 1..Len(h.nodes) |->
                         IF h.nodes[i].tag \in {"VIDEO", "IFRAME"}
                         THEN [h.nodes[i] EXCEPT !.hidden = FALSE] ELSE h.nodes[i]]]

\* The template's first element cloned into the host: inline style empty,
\* a video not yet playing.
Materialize(template) ==
  [i \in 1..Len(template) |->
     [tag |-> template[i].tag, vtype |-> template[i].vtype,
      autoplay |-> template[i].autoplay, hidden |-> FALSE, paused |-> TRUE]]

\* loadContent(focus) appending the content without setting data-media-loaded.
loadContentUnmarked(h, focus, bubbles, started) ==
  LET h1 == [h EXCEPT !.broadcasts = @ + 1]
      h2 == IF bubbles /\ h1.subscribed THEN pauseMedia(h1) ELSE h1
  IN  IF cfg.template = <<>> THEN h2
      ELSE [h2 EXCEPT !.nodes = @ \o Materialize(cfg.template),
                      !.triggerPlaying = TRUE]

\* DeferredMedia.loadContent(focus).  bubbles: the MediaStartedPlayingEvent
\* dispatched on the host reaches the document, where the host's own
\* listener (if registered) answers it with pauseMedia.  started: the
\* platform's answer to content.play().  focus moves the document's focus
\* to the content, which nothing here reads.
loadContent(h, focus, bubbles, started) ==
  IF h.loaded THEN h
  ELSE
    LET h1 == [h EXCEPT !.broadcasts = @ + 1]
        h2 == IF bubbles /\ h1.subscribed THEN pauseMedia(h1) ELSE h1
    IN  IF cfg.template = <<>> THEN h2
        ELSE
          LET h3 == [h2 EXCEPT !.loaded = TRUE,
                               !.nodes = @ \o Materialize(cfg.template),
                               !.triggerPlaying = TRUE]
          IN  IF h3.nodes[1].tag = "VIDEO" /\ h3.nodes[1].autoplay \notin {NoAttr, ""}
              THEN PlayVideo(h3, 1, started)
              ELSE h3

\* showDeferredMedia()
showDeferredMedia(h, bubbles, started) ==
  LET h1 == loadContent(h, TRUE, bubbles, started)
      h2 == [h1 EXCEPT !.isPlaying = TRUE]
  IN  updatePlayPauseHint(h2, h2.isPlaying)

\* The callback of every armed MutationObserver of observeVideoLoad, run
\* right after the script that appended the content: the added node is the
\* content's root; a VIDEO or IFRAME root arms the settle timer and
\* disconnects the observer, any other root leaves it armed.
observerCallback(before, h) ==
  IF Len(before.nodes) = 0 /\ Len(h.nodes) > 0 /\ h.observers > 0
  THEN IF h.nodes[1].tag = "VIDEO"
       THEN [h EXCEPT !.errorListeners = TRUE,
                      !.settle = @ + h.observers,
                      !.observers = 0]
       ELSE IF h.nodes[1].tag = "IFRAME"
       THEN [h EXCEPT !.settle = @ + h.observers,
                      !.observers = 0]
       ELSE h
  ELSE h

\* setTimeout in the connectedCallback that is running (the last one).
Arm(h, kind) == [h EXCEPT !.timers[Len(h.timers)] = @ \cup {kind}]

\* A test video in document.body: the host whose probe appended it, and
\* whether that probe is still awaiting testVideo.play().
TestVideo(owner) == [owner |-> owner, awaited |-> TRUE]

\* The positions in document.body of the test videos whose probes, started
\* by the given host, are pending.
Awaited(pg, owner) ==
  { i \in 1..Len(pg.testVideos) :
      pg.testVideos[i].owner = owner /\ pg.testVideos[i].awaited }

\* The pending probes of the host: each by the position of its test video,
\* or 0 for a probe whose test video is no longer in the document.
PendingProbes(h, pg) ==
  Awaited(pg, "host") \cup
    (IF h.probes > Cardinality(Awaited(pg, "host")) THEN {0} ELSE {})

\* document.body.removeChild of the test video at position i.
RemoveChild(videos, i) == SubSeq(videos, 1, i - 1) \o SubSeq(videos, i + 1, Len(videos))

\* checkAutoplaySupport() after its await: control reaches the catch block
\* when testVideo.play() rejected, or when it fulfilled and
\* document.body.removeChild(testVideo) throws because the element is no
\* longer a child of the body.
probeCatches(i, rejected) == rejected \/ i = 0

\* What the resumed probe removes: its own test video, or in the catch
\* block the first element document.querySelector('video[src^="data:video"]')
\* finds.
probeCleanup(pg, i, rejected) ==
  [pg EXCEPT !.testVideos =
     IF probeCatches(i, rejected)
     THEN LET returned == IF i = 0 THEN @ ELSE [@ EXCEPT ![i].awaited = FALSE]
          IN  IF returned = <<>> THEN returned ELSE Tail(returned)
     ELSE RemoveChild(@, i)]

\* The host's side of a resumed probe.
probeResumed(h, i, rejected) ==
  LET h1 == [h EXCEPT !.probes = @ - 1]
  IN  IF probeCatches(i, rejected) THEN showBatterySaverFallback(h1) ELSE h1

\* checkAutoplaySupport() up to its first suspension.  promise: whether
\* testVideo.play() returned a promise to await (otherwise the probe ends
\* at once, supported, its test video appended and removed again).
checkAutoplaySupport(h, promise) ==
  IF isIOSDevice THEN Arm(h, "iosAutoplayCheck")
  ELSE IF isMobileDevice /\ isBatterySaverLikely THEN showBatterySaverFallback(h)
  ELSE IF promise THEN [h EXCEPT !.probes = @ + 1]
  ELSE h

\* setupIOSPlayButtonDetection(): the 100 ms timer.
setupIOSPlayButtonDetection(h) == Arm(h, "iosDetect")

\* observeVideoLoad(): one more observer on the host's subtree.
observeVideoLoad(h) == [h EXCEPT !.observers = @ + 1]

\* connectedCallback().  A listener added with an already aborted signal is
\* not registered.
connectedCallback(h, promise) ==
  LET h1 == [h EXCEPT !.connected = TRUE,
                      !.detachedMidPoll = FALSE,
                      !.timers = Append(@, {}),
                      !.subscribed = IF h.aborted THEN @ ELSE TRUE]
      h2 == IF BatterySaverEnabled
            THEN LET a == IF isIOSDevice THEN setupIOSPlayButtonDetection(h1) ELSE h1
                     b == checkAutoplaySupport(a, promise)
                 IN  Arm(b, "backup")
            ELSE h1
  IN  IF BatterySaverEnabled THEN observeVideoLoad(h2) ELSE h2

\* disconnectedCallback(): the abort controller(s) aborted, every listener
\* registered with their signals removed.  (detachedMidPoll is history, not
\* a field of the element: a #waitForModelViewerUI was pending at this call.)
disconnectedCallback(h) ==
  LET h1 == [h EXCEPT !.connected = FALSE, !.aborted = TRUE, !.subscribed = FALSE]
  IN  IF cfg.cls = "product-model"
      THEN [h1 EXCEPT !.modelAborted = TRUE, !.tapListeners = 0,
                      !.pointer.starts = <<>>,
                      !.detachedMidPoll = (h.polls # <<>>)]
      ELSE h1

\* checkActualVideoAutoplay(); notReady: video.ended or readyState < 3.
checkActualVideoAutoplay(h, notReady) ==
  LET h1 == [h EXCEPT !.settledChecks = @ + 1]
  IN  IF Videos(h1) # {}
      THEN IF h1.nodes[Min(Videos(h1))].paused \/ notReady
           THEN showBatterySaverFallback(h1) ELSE h1
      ELSE IF Iframes(h1) # {} /\ isMobileDevice
           THEN showBatterySaverFallback(h1) ELSE h1

\* checkVideoPlayingState()
checkVideoPlayingState(h) ==
  IF Iframes(h) # {} /\ (isMobileDevice \/ isBatterySaverLikely)
  THEN showBatterySaverFallback(h) ELSE h

\* The 1 s timer of checkAutoplaySupport on iOS.
iosAutoplayCheck(h) ==
  IF \E i \in Videos(h) : ~h.nodes[i].paused THEN h ELSE showBatterySaverFallback(h)

\* The 100 ms timer of setupIOSPlayButtonDetection, armed by attach a.
iosDetect(h, a) ==
  IF Videos(h) # {}
  THEN [h EXCEPT !.iosListeners = TRUE, !.timers[a] = @ \cup {"iosDetectLate"}]
  ELSE h

\* The nested 1 s timer; atStart: video.currentTime === 0.
iosDetectLate(h, atStart) ==
  IF h.nodes[Min(Videos(h))].paused /\ atStart THEN showBatterySaverFallback(h) ELSE h

\* setupModelViewerUI() without its second factory test.
setupAfterWaitNoFactoryTest(h, throws, started) ==
  IF Select(h, {"MODEL-VIEWER"}) = {} THEN h
  ELSE IF throws THEN [h EXCEPT !.unhandled = TRUE]
  ELSE LET h1 == [h EXCEPT !.viewers = @ + 1]
           h2 == playMedia(h1, started)
       IN  IF h2.modelAborted THEN h2
           ELSE [h2 EXCEPT !.tapListeners = @ + 1,
                           !.pointer.starts = Append(@, <<0, 0>>)]

\* The rest of setupModelViewerUI(), from the second factory test on.
\* throws: the viewer constructor throws, which rejects the promise of
\* this async method; the feature loader that called it attaches no handler.
\* Listeners added with an aborted signal are not registered.
setupAfterWait(h, throws, started) ==
  IF ~shopify.ModelViewerUI THEN h
  ELSE IF Select(h, {"MODEL-VIEWER"}) = {} THEN h
  ELSE IF throws THEN [h EXCEPT !.unhandled = TRUE]
  ELSE LET h1 == [h EXCEPT !.viewers = @ + 1]
           h2 == playMedia(h1, started)
       IN  IF h2.modelAborted THEN h2
           ELSE [h2 EXCEPT !.tapListeners = @ + 1,
                           !.pointer.starts = Append(@, <<0, 0>>)]

\* setupModelViewerUI(errors), up to its first suspension: with the factory
\* missing it enters #waitForModelViewerUI, whose first pass (i = 0) finds
\* the factory missing too and awaits the first interval.
setupModelViewerUI(h, errors, throws, started) ==
  IF errors THEN h
  ELSE IF ~shopify.ModelViewerUI THEN [h EXCEPT !.polls = Append(@, 0)]
  ELSE setupAfterWait(h, throws, started)

\* #waitForModelViewerUI(): the interval awaited by poll k has elapsed; i++,
\* then the loop test and the factory test, then either another interval or
\* the return into setupModelViewerUI.
Remove(seq, k) == [i \in 1..(Len(seq) - 1) |-> IF i < k THEN seq[i] ELSE seq[i + 1]]

waitForModelViewerUI(h, k, throws, started) ==
  LET i == h.polls[k] + 1
  IN  IF i < maxAttempts /\ ~shopify.ModelViewerUI
      THEN [h EXCEPT !.polls[k] = i]
      ELSE setupAfterWait([h EXCEPT !.polls = Remove(@, k)], throws, started)

\* The pointerdown listener of every setupModelViewerUI that registered one:
\* pointerStartX, pointerStartY of its closure.
pointerdown(h, p) ==
  [h EXCEPT !.pointer.starts = [i \in 1..Len(@) |-> p]]

\* Math.abs(a - b)
AbsDiff(a, b) == IF a > b THEN a - b ELSE b - a

\* Math.sqrt(distanceX * distanceX + distanceY * distanceY) < 10, on
\* integer coordinates (the square root of 100 is exactly 10).
IsTap(start, p) ==
  LET distanceX == AbsDiff(p[1], start[1])
      distanceY == AbsDiff(p[2], start[2])
  IN  distanceX * distanceX + distanceY * distanceY < tapThreshold * tapThreshold

\* The click listeners, in the order they were registered, from listener i on.
RECURSIVE click(_, _, _)
click(h, p, i) ==
  IF i > Len(h.pointer.starts) THEN h
  ELSE click(IF IsTap(h.pointer.starts[i], p) THEN pauseMedia(h) ELSE h, p, i + 1)

\* ------------------------------------------------------------- initial state
\* A document without test videos; its other host not yet attached.
NewPage == [testVideos |-> <<>>, other |-> [probe |-> "none", active |-> FALSE]]

\* The element as constructed and parsed, not yet attached.
NewHost ==
  [connected |-> FALSE, aborted |-> FALSE, modelAborted |-> FALSE,
   subscribed |-> FALSE, isPlaying |-> FALSE, loaded |-> FALSE,
   nodes |-> <<>>, triggerPlaying |-> FALSE,
   hint |-> "hidden", posted |-> <<>>, unhandled |-> FALSE, batterySaverActive |-> FALSE,
   broadcasts |-> 0,
   timers |-> <<>>, settle |-> 0, observers |-> 0, probes |-> 0,
   errorListeners |-> FALSE, iosListeners |-> FALSE, settledChecks |-> 0,
   viewers |-> 0, viewerPlaying |-> FALSE, tapListeners |-> 0, polls |-> <<>>,
   pointer |-> [starts |-> <<>>, down |-> NoEvent, delivered |-> FALSE,
                click |-> NoEvent],
   detachedMidPoll |-> FALSE]

Init ==
  /\ cfg \in DeferredConfigs
  /\ env \in Envs
  /\ (cfg.autoplay /\ cfg.batterySaverFallback = "true") \/ env = PlainEnv
  /\ host = NewHost
  /\ shopify = [ModelViewerUI |-> FALSE, requested |-> 0, pending |-> 0]
  /\ page = NewPage
  /\ op = "constructor"

\* A battery-saver host on a platform where checkAutoplaySupport runs the
\* probe, in a document with another such host.
InitPage ==
  /\ cfg \in { Config("deferred-media", t, [autoplay |-> TRUE, batterySaverFallback |-> "true"]) :
                t \in BatterySaverTemplates }
  /\ env \in { e \in Envs : e.device # "iPhone" /\ ~(e.device = "Android" /\ e.saveData) }
  /\ host = NewHost
  /\ shopify = [ModelViewerUI |-> FALSE, requested |-> 0, pending |-> 0]
  /\ page = NewPage
  /\ op = "constructor"

\* A <product-model> host around a model-viewer template, the viewer
\* library already present.
InitTap ==
  /\ cfg = Config("product-model", <<ModelViewerNode>>,
                  [autoplay |-> FALSE, batterySaverFallback |-> NoAttr])
  /\ env = PlainEnv
  /\ host = NewHost
  /\ shopify = [ModelViewerUI |-> TRUE, requested |-> 0, pending |-> 0]
  /\ page = NewPage
  /\ op = "constructor"

InitModel ==
  /\ cfg \in ModelConfigs
  /\ env = PlainEnv
  /\ host = NewHost
  /\ shopify \in [ModelViewerUI : BOOLEAN, requested : {0}, pending : {0}]
  /\ page = NewPage
  /\ op = "constructor"

\* ------------------------------------------------------------- actions
Static == UNCHANGED <<cfg, env, page>>

\* The platform's answers are drawn only where the handler asks for them.
\* The answer to video.play() in playMedia:
PlayAnswers(h) ==
  IF ProviderIframes(h) = {} /\ Videos(h) # {} THEN BOOLEAN ELSE {FALSE}

\* ... in toggleMedia:
ToggleAnswers(h) == IF h.isPlaying THEN {FALSE} ELSE PlayAnswers(h)

\* ... to content.play() in loadContent:
LoadAnswers(h) ==
  IF /\ ~h.loaded
     /\ cfg.template # <<>>
     /\ cfg.template[1].tag = "VIDEO"
     /\ cfg.template[1].autoplay \notin {NoAttr, ""}
  THEN BOOLEAN ELSE {FALSE}

\* Whether the host's own broadcast comes back to its document listener:
BubbleAnswers(h) == IF ~h.loaded /\ h.subscribed THEN BOOLEAN ELSE {FALSE}

\* Whether new Shopify.ModelViewerUI(element) throws:
ThrowAnswers(h) ==
  IF shopify.ModelViewerUI /\ Select(h, {"MODEL-VIEWER"}) # {} THEN BOOLEAN ELSE {FALSE}

\* Whether testVideo.play() returns a promise:
PromiseAnswers ==
  IF BatterySaverEnabled /\ ~isIOSDevice /\ ~(isMobileDevice /\ isBatterySaverLikely)
  THEN BOOLEAN ELSE {TRUE}

\* The element is inserted into the document.
ConnectedCallback ==
  /\ ~host.connected
  /\ Len(host.timers) < MaxAttach
  /\ \E promise \in PromiseAnswers : host' = connectedCallback(Begin(host), promise)
  /\ page' = IF host'.probes = host.probes THEN page
             ELSE [page EXCEPT !.testVideos = Append(@, TestVideo("host"))]
  /\ op' = "connectedCallback"
  /\ UNCHANGED <<cfg, env, shopify>>

\* The element is removed from the document.
DisconnectedCallback ==
  /\ host.connected
  /\ host' = disconnectedCallback(Begin(host))
  /\ op' = "disconnectedCallback"
  /\ UNCHANGED shopify /\ Static

\* Shopify.loadFeatures of ProductModel.loadContent: one more onLoad pending.
loadFeatures(sh) ==
  IF cfg.cls = "product-model"
  THEN [sh EXCEPT !.requested = @ + 1, !.pending = @ + 1] ELSE sh

\* A further call of loadContent keeps the counters it raises within the bound.
WithinLoadBound ==
  /\ host.loaded \/ host.broadcasts < MaxLoadCalls
  /\ cfg.cls = "product-model" => shopify.requested < MaxLoadCalls

\* A click on the deferred-media play button.
ShowDeferredMedia ==
  /\ WithinLoadBound
  /\ \E bubbles \in BubbleAnswers(host), started \in LoadAnswers(host) :
       host' = observerCallback(host,
                 showDeferredMedia(Begin(host), bubbles, started))
  /\ shopify' = loadFeatures(shopify)
  /\ op' = "showDeferredMedia"
  /\ Static

\* loadContent called from outside (ProductModel.loadContent drops the
\* argument, so the inherited method runs with focus = true).
LoadContent ==
  /\ WithinLoadBound
  /\ \E focus \in (IF cfg.cls = "product-model" THEN {TRUE} ELSE BOOLEAN),
        bubbles \in BubbleAnswers(host), started \in LoadAnswers(host) :
       host' = observerCallback(host,
                 loadContent(Begin(host), focus, bubbles, started))
  /\ shopify' = loadFeatures(shopify)
  /\ op' = "loadContent"
  /\ Static

ToggleMedia ==
  /\ \E started \in ToggleAnswers(host) : host' = toggleMedia(Begin(host), started)
  /\ op' = "toggleMedia"
  /\ UNCHANGED shopify /\ Static

PlayMedia ==
  /\ \E started \in PlayAnswers(host) : host' = playMedia(Begin(host), started)
  /\ op' = "playMedia"
  /\ UNCHANGED shopify /\ Static

PauseMedia ==
  /\ host' = pauseMedia(Begin(host))
  /\ op' = "pauseMedia"
  /\ UNCHANGED shopify /\ Static

HideBatterySaverFallback ==
  /\ host' = hideBatterySaverFallback(Begin(host))
  /\ op' = "hideBatterySaverFallback"
  /\ UNCHANGED shopify /\ Static

\* ThemeEvents.mediaStartedPlaying reaches the document from another
\* element, or DialogCloseEvent reaches the window: both listeners are
\* pauseMedia bound to the host, registered and removed together.
InboundSignal ==
  /\ \E signal \in {"mediaStartedPlaying", "dialogClose"} :
       host' = IF host.subscribed THEN pauseMedia(Begin(host)) ELSE Begin(host)
  /\ op' = "inboundSignal"
  /\ UNCHANGED shopify /\ Static

\* The awaited testVideo.play() of checkAutoplaySupport fulfils.
ProbeSupported ==
  /\ \E i \in PendingProbes(host, page) :
       /\ host' = probeResumed(Begin(host), i, FALSE)
       /\ page' = probeCleanup(page, i, FALSE)
  /\ op' = "probeSupported"
  /\ UNCHANGED <<cfg, env, shopify>>

\* The awaited testVideo.play() rejects: the catch block.
ProbeBlocked ==
  /\ \E i \in PendingProbes(host, page) :
       /\ host' = probeResumed(Begin(host), i, TRUE)
       /\ page' = probeCleanup(page, i, TRUE)
  /\ op' = "probeBlocked"
  /\ UNCHANGED <<cfg, env, shopify>>

\* The attach whose timer of this kind is due next: that timer has the
\* earliest deadline among the pending timers of its connectedCallback, and
\* no earlier connectedCallback has a timer of the same kind pending.
Due(kind) ==
  { a \in 1..Len(host.timers) :
      /\ kind \in host.timers[a]
      /\ \A k \in host.timers[a] : Deadline(kind) <= Deadline(k)
      /\ \A b \in 1..(a - 1) : kind \notin host.timers[b] }

Expire(h, a, kind) == [h EXCEPT !.timers[a] = @ \ {kind}]

TimerIosAutoplayCheck ==
  /\ \E a \in Due("iosAutoplayCheck") :
       host' = iosAutoplayCheck(Expire(Begin(host), a, "iosAutoplayCheck"))
  /\ op' = "timer:iosAutoplayCheck"
  /\ UNCHANGED shopify /\ Static

TimerIosDetect ==
  /\ \E a \in Due("iosDetect") : host' = iosDetect(Expire(Begin(host), a, "iosDetect"), a)
  /\ op' = "timer:iosDetect"
  /\ UNCHANGED shopify /\ Static

TimerIosDetectLate ==
  /\ \E a \in Due("iosDetectLate"), atStart \in BOOLEAN :
       host' = iosDetectLate(Expire(Begin(host), a, "iosDetectLate"), atStart)
  /\ op' = "timer:iosDetectLate"
  /\ UNCHANGED shopify /\ Static

TimerBackup ==
  /\ \E a \in Due("backup") : host' = checkVideoPlayingState(Expire(Begin(host), a, "backup"))
  /\ op' = "timer:backup"
  /\ UNCHANGED shopify /\ Static

\* The 1 s settle timer of one observer callback.
TimerSettle ==
  /\ host.settle > 0
  /\ \E notReady \in BOOLEAN :
       host' = checkActualVideoAutoplay([Begin(host) EXCEPT !.settle = @ - 1], notReady)
  /\ op' = "timer:settle"
  /\ UNCHANGED shopify /\ Static

\* The platform starts a materialized video that carries the autoplay attribute.
NativeAutoplay ==
  /\ \E i \in Videos(host) :
       /\ host.nodes[i].autoplay # NoAttr
       /\ host.nodes[i].paused
       /\ host' = PlayVideo(Begin(host), i, TRUE)
  /\ op' = "nativeAutoplay"
  /\ UNCHANGED shopify /\ Static

\* The platform fires an event on the host's first video: the listeners of
\* observeVideoLoad (error, abort: the same handler, abort is not drawn
\* separately) and of setupIOSPlayButtonDetection (pause, suspend) answer
\* it; an event without a listener is no step.  atStart: video.currentTime === 0.
videoEvent(h, ev, atStart) ==
  LET v == Min(Videos(h))
      h1 == IF ev = "pause" THEN PauseVideo(h, v) ELSE h
  IN  IF ev \in {"error", "abort"}
      THEN IF h1.errorListeners THEN showBatterySaverFallback(h1) ELSE h1
      ELSE IF ev = "suspend"
      THEN IF h1.iosListeners THEN showBatterySaverFallback(h1) ELSE h1
      ELSE IF h1.iosListeners /\ h1.nodes[v].autoplay # NoAttr /\ atStart
      THEN showBatterySaverFallback(h1) ELSE h1

VideoEvent ==
  /\ Videos(host) # {}
  /\ \E ev \in {"error", "pause", "suspend"}, atStart \in BOOLEAN :
       /\ ev = "error" => host.errorListeners
       /\ ev = "suspend" => host.iosListeners
       /\ ev # "pause" => atStart
       /\ host' = videoEvent(Begin(host), ev, atStart)
       /\ op' = "video:" \o ev
  /\ UNCHANGED shopify /\ Static

\* The feature loader calls onLoad (setupModelViewerUI) with or without errors.
FeatureLoaded ==
  /\ shopify.pending > 0
  /\ shopify' = [shopify EXCEPT !.pending = @ - 1]
  /\ \E errors \in BOOLEAN, throws \in ThrowAnswers(host), started \in PlayAnswers(host) :
       host' = setupModelViewerUI(Begin(host), errors, throws, started)
  /\ op' = "setupModelViewerUI"
  /\ Static

\* One 50 ms interval of one pending #waitForModelViewerUI elapses.
PollTick ==
  /\ \E k \in 1..Len(host.polls), throws \in ThrowAnswers(host),
        started \in PlayAnswers(host) :
       host' = waitForModelViewerUI(Begin(host), k, throws, started)
  /\ op' = "pollTick"
  /\ UNCHANGED shopify /\ Static

\* The viewer library assigns Shopify.ModelViewerUI.
FactoryReady ==
  /\ cfg.cls = "product-model"
  /\ ~shopify.ModelViewerUI
  /\ shopify' = [shopify EXCEPT !.ModelViewerUI = TRUE]
  /\ host' = Begin(host)
  /\ op' = "factoryReady"
  /\ Static

\* The page's other host is attached: its checkAutoplaySupport appends a
\* test video and awaits play().
OtherConnected ==
  /\ page.other.probe = "none"
  /\ ~isIOSDevice /\ ~(isMobileDevice /\ isBatterySaverLikely)
  /\ page' = [page EXCEPT !.testVideos = Append(@, TestVideo("other")),
                          !.other.probe = "pending"]
  /\ op' = "other:connectedCallback"
  /\ UNCHANGED <<cfg, env, host, shopify>>

\* The other host's probe resumes, play() fulfilled or rejected.
otherProbeResumed(pg, rejected) ==
  LET i == IF Awaited(pg, "other") = {} THEN 0 ELSE Min(Awaited(pg, "other"))
      pg1 == probeCleanup(pg, i, rejected)
  IN  [pg1 EXCEPT !.other.probe = "done",
                  !.other.active = @ \/ probeCatches(i, rejected)]

OtherProbeSupported ==
  /\ page.other.probe = "pending"
  /\ page' = otherProbeResumed(page, FALSE)
  /\ op' = "other:probeSupported"
  /\ UNCHANGED <<cfg, env, host, shopify>>

OtherProbeBlocked ==
  /\ page.other.probe = "pending"
  /\ page' = otherProbeResumed(page, TRUE)
  /\ op' = "other:probeBlocked"
  /\ UNCHANGED <<cfg, env, host, shopify>>

\* The user presses on the materialized model-viewer element.  (down,
\* delivered and click are history: the position of the last pointerdown,
\* whether a registered listener received it, the position of the click.)
PointerDown ==
  /\ Select(host, {"MODEL-VIEWER"}) # {}
  /\ \E p \in Points :
       host' = pointerdown([Begin(host) EXCEPT !.pointer.down = p,
                                               !.pointer.delivered = (host.tapListeners > 0),
                                               !.pointer.click = NoEvent], p)
  /\ op' = "pointerdown"
  /\ UNCHANGED shopify /\ Static

\* The click that ends the gesture.
Click ==
  /\ host.pointer.down # NoEvent
  /\ host.pointer.click = NoEvent
  /\ \E p \in Points :
       host' = click([Begin(host) EXCEPT !.pointer.click = p], p, 1)
  /\ op' = "click"
  /\ UNCHANGED shopify /\ Static

Next ==
  \/ ConnectedCallback
  \/ DisconnectedCallback
  \/ ShowDeferredMedia
  \/ LoadContent
  \/ ToggleMedia
  \/ PlayMedia
  \/ PauseMedia
  \/ HideBatterySaverFallback
  \/ InboundSignal
  \/ ProbeSupported
  \/ ProbeBlocked
  \/ TimerIosAutoplayCheck
  \/ TimerIosDetect
  \/ TimerIosDetectLate
  \/ TimerBackup
  \/ TimerSettle
  \/ NativeAutoplay
  \/ VideoEvent

\* <deferred-media> hosts.
Spec == Init /\ [][Next]_vars

NextModel ==
  \/ ConnectedCallback
  \/ DisconnectedCallback
  \/ ShowDeferredMedia
  \/ LoadContent
  \/ ToggleMedia
  \/ PlayMedia
  \/ PauseMedia
  \/ InboundSignal
  \/ FeatureLoaded
  \/ PollTick
  \/ FactoryReady

\* <product-model> hosts.
SpecModel == InitModel /\ [][NextModel]_vars

NextPoll ==
  \/ ConnectedCallback
  \/ DisconnectedCallback
  \/ ShowDeferredMedia
  \/ LoadContent
  \/ FeatureLoaded
  \/ PollTick
  \/ FactoryReady

\* <product-model> hosts and the steps that start, advance or end a
\* #waitForModelViewerUI, on a platform whose timers fire: the interval a
\* pending wait awaits elapses.
SpecPoll == InitModel /\ [][NextPoll]_vars /\ WF_vars(PollTick)

NextPage ==
  \/ ConnectedCallback
  \/ DisconnectedCallback
  \/ ShowDeferredMedia
  \/ ProbeSupported
  \/ ProbeBlocked
  \/ TimerBackup
  \/ OtherConnected
  \/ OtherProbeSupported
  \/ OtherProbeBlocked

\* Battery-saver hosts: the autoplay probes of two hosts of one document.
SpecPage == InitPage /\ [][NextPage]_vars

NextTap ==
  \/ ConnectedCallback
  \/ DisconnectedCallback
  \/ ShowDeferredMedia
  \/ FeatureLoaded
  \/ PlayMedia
  \/ PointerDown
  \/ Click

\* <product-model> hosts: the tap gesture on the viewer.
SpecTap == InitTap /\ [][NextTap]_vars

\* ------------------------------------------------------------- properties

MediaNodes(h) == Videos(h) \cup Iframes(h)

\* Every materialized video and iframe of the host is hidden inline.
AllMediaHidden(h) == \A i \in MediaNodes(h) : h.nodes[i].hidden

\* The number of clones of the template's first element appended to the host.
ContentCount(h) ==
  IF cfg.template = <<>> THEN 0 ELSE Len(h.nodes) \div Len(cfg.template)

\* C1: in every reachable state a host that is playing has its content
\* loaded (isPlaying => data-media-loaded).
C1_PlayingImpliesLoaded == host.isPlaying => host.loaded

\* C2: when loadContent has been called twice in a row (or more often) the
\* host holds exactly one materialized content node and has sent exactly
\* one "media started playing" broadcast.
C2_ExactlyOneAfterTwoCalls ==
  [][(op = "loadContent" /\ op' = "loadContent") =>
       (ContentCount(host') = 1 /\ host'.broadcasts = 1)]_vars

\* C3: once the host was detached with the factory poll pending, a step of
\* the poll (and of the setup it returns into) has no side effect: no viewer
\* adapter is constructed, playMedia is not called (playback state and hint
\* stay), no tap listener is registered.
C3_NoEffectAfterDetach ==
  [][(host.detachedMidPoll /\ op' = "pollTick") =>
       /\ host'.viewers = host.viewers
       /\ host'.viewerPlaying = host.viewerPlaying
       /\ host'.isPlaying = host.isPlaying
       /\ host'.hint = host.hint
       /\ host'.tapListeners = host.tapListeners]_vars

BatterySaverSteps ==
  { "probeSupported", "probeBlocked", "timer:iosAutoplayCheck", "timer:iosDetect",
    "timer:iosDetectLate", "timer:backup", "timer:settle" }

\* C4: a pending battery-saver check that runs after disconnectedCallback,
\* while the host is detached, neither sets the fallback marker nor hides a
\* media node.
C4_NoFallbackAfterDetach ==
  [][(~host.connected /\ host.aborted /\ op' \in BatterySaverSteps) =>
       /\ host'.batterySaverActive = host.batterySaverActive
       /\ host'.nodes = host.nodes]_vars

\* C5: an inbound signal (media started playing, dialog closed) calls
\* pauseMedia on an attached host, after every connectedCallback, and leaves
\* a detached host as it is.
C5_SignalsWhileAttached ==
  [][op' = "inboundSignal" =>
       host' = IF host.connected THEN pauseMedia(Begin(host)) ELSE Begin(host)]_vars

\* C6: while the host carries the battery-saver-active marker every
\* materialized video and iframe of the host is hidden inline.
C6_FallbackHidesMedia == host.batterySaverActive => AllMediaHidden(host)

\* C7: once set, the battery-saver-active marker stays set across every
\* step that is not hideBatterySaverFallback.
C7_FallbackMonotonic ==
  [][(host.batterySaverActive /\ op' # "hideBatterySaverFallback") =>
       host'.batterySaverActive]_vars

C7_Witness ==
  /\ host.batterySaverActive
  /\ host.loaded
  /\ op = "toggleMedia"

\* C8: a host whose data-battery-saver-fallback is not "true" has no probe
\* in flight, no observer armed, no fallback timer pending, no fallback
\* listener on its video, and never carries the fallback marker.
C8_DisabledWithoutFlag ==
  cfg.batterySaverFallback # "true" =>
    /\ host.probes = 0
    /\ host.observers = 0
    /\ \A a \in 1..Len(host.timers) : host.timers[a] = {}
    /\ host.settle = 0
    /\ ~host.errorListeners
    /\ ~host.iosListeners
    /\ ~host.batterySaverActive

C8_Witness ==
  /\ cfg.autoplay
  /\ cfg.batterySaverFallback # "true"
  /\ host.connected
  /\ host.loaded
  /\ MediaNodes(host) # {}

\* C9: when the autoplay probe resolves rejected the host carries the
\* fallback marker and all its video and iframe nodes are hidden.
C9_BlockedProbeActivates ==
  op = "probeBlocked" => (host.batterySaverActive /\ AllMediaHidden(host))

C9_Witness ==
  /\ op = "probeBlocked"
  /\ cfg.autoplay /\ cfg.batterySaverFallback = "true"
  /\ Videos(host) # {}
  /\ Iframes(host) # {}

\* C10: checkActualVideoAutoplay is invoked by the watcher at most once per
\* host (a host has one loadContent cycle: loaded is never reset).
C10_SettledCheckAtMostOnce == host.settledChecks <= 1

\* C11: on a host whose template is absent or has no first element a call
\* of loadContent does nothing: no broadcast, no node appended, loaded
\* stays false, the trigger control is not marked playing.
C11_MissingContentNoOp ==
  [][(cfg.template = <<>> /\ op' = "loadContent") =>
       /\ host'.broadcasts = host.broadcasts
       /\ host'.nodes = host.nodes
       /\ ~host'.loaded
       /\ ~host'.triggerPlaying]_vars

\* C12: a 3D model host constructs at most one viewer adapter and registers
\* its tap listeners at most once, over any sequence of loadContent calls
\* and onLoad callbacks.
C12_AtMostOneViewer == host.viewers <= 1 /\ host.tapListeners <= 1

\* C13: toggleMedia pauses exactly when the host is playing and plays
\* otherwise (so from Paused it gives Playing and a second call Paused
\* again), and touches nothing that pauseMedia or playMedia does not.
C13_ToggleDispatches ==
  [][op' = "toggleMedia" =>
       /\ host'.isPlaying = ~host.isPlaying
       /\ host.loaded =>
            host'.hint = IF host.isPlaying THEN "playIcon" ELSE "pauseIcon"
       /\ (host.isPlaying /\ ProviderIframes(host) = {} /\ Videos(host) # {}) =>
            host'.nodes[Min(Videos(host))].paused
       /\ \A f \in DOMAIN host \ {"isPlaying", "hint", "posted", "unhandled", "nodes"} :
            host'[f] = host[f]]_vars

\* A toggle that paused a loaded host.
C13_Witness ==
  /\ op = "toggleMedia"
  /\ host.loaded
  /\ ~host.isPlaying
  /\ host.hint = "playIcon"
  /\ Videos(host) # {}

\* C14: no operation leaves a promise rejected without a handler (or an
\* exception uncaught) for the page.
C14_NoUnhandledFailure == ~host.unhandled

\* C15: playMedia and pauseMedia on a host with a provider iframe post
\* exactly one message, the YouTube command for provider "youtube" and the
\* {method} form for any other provider, and leave the native video alone;
\* without such an iframe they post nothing and call the native video's
\* play or pause.
C15_BackendDispatchAlways ==
  [][op' \in {"playMedia", "pauseMedia"} =>
       LET play == (op' = "playMedia")
       IN  IF ProviderIframes(host) # {}
           THEN /\ host'.posted =
                     << IF host.nodes[Min(ProviderIframes(host))].vtype = "youtube"
                        THEN IF play
                             THEN "{\"event\":\"command\",\"func\":\"playVideo\",\"args\":\"\"}"
                             ELSE "{\"event\":\"command\",\"func\":\"pauseVideo\",\"args\":\"\"}"
                        ELSE IF play THEN "{\"method\":\"play\"}"
                             ELSE "{\"method\":\"pause\"}" >>
                /\ host'.nodes = host.nodes
                /\ ~host'.unhandled
           ELSE /\ host'.posted = <<>>
                /\ Videos(host) # {} =>
                     LET v == Min(Videos(host))
                     IN  /\ \A i \in 1..Len(host.nodes) :
                              i # v => host'.nodes[i] = host.nodes[i]
                         /\ IF play
                            THEN ~host'.nodes[v].paused \/ host'.unhandled
                            ELSE host'.nodes[v].paused]_vars

\* C15 amended: playMedia and pauseMedia on a host with a provider iframe
\* post exactly one message while the host is attached (nothing while it is
\* detached and the frame has no window), the YouTube command for provider
\* "youtube" and the {method} form for any other provider, and leave the
\* native video alone; without such an iframe they post nothing and call
\* the native video's play or pause.
C15_BackendDispatch ==
  [][op' \in {"playMedia", "pauseMedia"} =>
       LET play == (op' = "playMedia")
       IN  IF ProviderIframes(host) # {}
           THEN /\ host'.posted =
                     IF ~host.connected THEN <<>> ELSE
                     << IF host.nodes[Min(ProviderIframes(host))].vtype = "youtube"
                        THEN IF play
                             THEN "{\"event\":\"command\",\"func\":\"playVideo\",\"args\":\"\"}"
                             ELSE "{\"event\":\"command\",\"func\":\"pauseVideo\",\"args\":\"\"}"
                        ELSE IF play THEN "{\"method\":\"play\"}"
                             ELSE "{\"method\":\"pause\"}" >>
                /\ host'.nodes = host.nodes
                /\ ~host'.unhandled
           ELSE /\ host'.posted = <<>>
                /\ Videos(host) # {} =>
                     LET v == Min(Videos(host))
                     IN  /\ \A i \in 1..Len(host.nodes) :
                              i # v => host'.nodes[i] = host.nodes[i]
                         /\ IF play
                            THEN ~host'.nodes[v].paused \/ host'.unhandled
                            ELSE host'.nodes[v].paused]_vars

\* pauseMedia posted the YouTube pause command and the host's native video
\* went on playing.
C15_Witness ==
  /\ op = "pauseMedia"
  /\ host.posted = <<"{\"event\":\"command\",\"func\":\"pauseVideo\",\"args\":\"\"}">>
  /\ \E i \in Videos(host) : ~host.nodes[i].paused

\* C17: showBatterySaverFallback called twice leaves the host as one call
\* does; showBatterySaverFallback followed by hideBatterySaverFallback, and
\* every call of hideBatterySaverFallback, leaves the marker cleared and no
\* video or iframe of the host hidden inline.
C17_ActivateOnceDeactivateClears ==
  /\ [](LET once == showBatterySaverFallback(host)
            back == hideBatterySaverFallback(once)
        IN  /\ showBatterySaverFallback(once) = once
            /\ ~back.batterySaverActive
            /\ \A i \in MediaNodes(back) : ~back.nodes[i].hidden)
  /\ [][op' = "hideBatterySaverFallback" =>
         /\ ~host'.batterySaverActive
         /\ \A i \in MediaNodes(host') : ~host'.nodes[i].hidden]_vars

\* A battery-saver check has activated the fallback on a host whose media
\* are materialized.
C17_Witness ==
  /\ op \in BatterySaverSteps
  /\ host.batterySaverActive
  /\ MediaNodes(host) # {}
  /\ AllMediaHidden(host)

\* C20: while the content is not loaded the play/pause hint has not been
\* touched (the toggle control is still hidden).
C20_HintOnlyWhenLoaded == ~host.loaded => host.hint = "hidden"

\* C16: with the viewer set up, a click that follows a pointer-down its
\* tap listeners received pauses the playing host if and only if the two
\* positions are less than 10 apart.
C16_TapPausesWithinThreshold ==
  [][(/\ op' = "click"
      /\ host.tapListeners > 0
      /\ host.pointer.delivered
      /\ host.isPlaying) =>
       (~host'.isPlaying <=> IsTap(host.pointer.down, host'.pointer.click))]_vars

\* C18: a probe of the host whose play() fulfilled leaves the host's
\* fallback as it was, whatever the probes of the page's other host do.
C18_SupportedProbeNoOp ==
  [][op' = "probeSupported" =>
       /\ host'.batterySaverActive = host.batterySaverActive
       /\ host'.nodes = host.nodes]_vars

\* C19: every test video in the document belongs to a probe that has not
\* returned yet: a probe that returns, play() fulfilled or rejected, has
\* removed the element it appended, and once no probe of the page is
\* pending the document holds no test video.
C19_ProbeRemovesOwnElement ==
  \A i \in 1..Len(page.testVideos) : page.testVideos[i].awaited

\* C21: a wait for the viewer factory ends within maxAttempts intervals,
\* and every wait does end; a setupModelViewerUI that is called with
\* errors, or finds the factory still missing when its wait ends, or finds
\* no model-viewer node, leaves the host as it was: no viewer constructed,
\* playMedia not called, no tap listener registered, the content in place.
C21_BoundedPollGivesUp ==
  /\ [](\A k \in 1..Len(host.polls) : host.polls[k] < maxAttempts)
  /\ [](\A throws \in BOOLEAN, started \in BOOLEAN :
          setupModelViewerUI(Begin(host), TRUE, throws, started) = Begin(host))
  /\ [][(op' = "pollTick" /\ ~shopify.ModelViewerUI) =>
         \E k \in 1..Len(host.polls) :
           host'.polls = IF host.polls[k] + 1 < maxAttempts
                         THEN [host.polls EXCEPT ![k] = @ + 1]
                         ELSE Remove(host.polls, k)]_vars
  /\ [][(/\ op' \in {"setupModelViewerUI", "pollTick"}
          /\ (~shopify.ModelViewerUI \/ Select(host, {"MODEL-VIEWER"}) = {})) =>
         host' = [Begin(host) EXCEPT !.polls = host'.polls]]_vars
  /\ []<>(host.polls = <<>>)

\* A wait has run out with the factory still missing, on a host whose
\* model-viewer content is materialized.
C21_Witness ==
  /\ op = "pollTick"
  /\ ~shopify.ModelViewerUI
  /\ host.polls = <<>>
  /\ Select(host, {"MODEL-VIEWER"}) # {}
  /\ host.viewers = 0

\* C22: a playMedia or pauseMedia call (direct, through toggleMedia or
\* from an inbound signal) on a host that is not loaded posts no message
\* and calls play or pause on no video: the host has no media node outside
\* its template yet.
C22_NoBackendBeforeLoad ==
  (op \in {"playMedia", "pauseMedia", "toggleMedia", "inboundSignal"} /\ ~host.loaded) =>
    (host.posted = <<>> /\ ~host.unhandled /\ host.nodes = <<>>)

\* playMedia was called on an attached host whose provider iframe and
\* video are still in the template.
C22_Witness ==
  /\ op = "playMedia"
  /\ ~host.loaded
  /\ host.connected
  /\ host.isPlaying
  /\ \E i \in 1..Len(cfg.template) : cfg.template[i].tag = "IFRAME"
  /\ \E i \in 1..Len(cfg.template) : cfg.template[i].tag = "VIDEO"

====
